---------------------------- MODULE Spec2Model ----------------------------
(***************************************************************************)
(* A reliable-transfer protocol over UDP: the initiator (udpClient.py,     *)
(* class UDPClient) and the responder (udpServer.py, class UDPServer).     *)
(*                                                                         *)
(* Times are integer milliseconds.  A datagram is a record                 *)
(*   [hdr |-> the first (at most 8) bytes, payload |-> number of bytes     *)
(*    that follow them].                                                   *)
(* A channel is the sequence of datagrams in flight in one direction.      *)
(***************************************************************************)
EXTENDS Integers, Sequences, FiniteSets, TLC

(***************************************************************************)
(* Bounds of the model.                                                    *)
(***************************************************************************)
MaxTarget == 10        \* largest target_packets an initiator is built with
MaxRetransmit == 1     \* retransmissions explored in one run
MaxThreads == 2        \* handler threads of the responder alive at once
MaxInject == 4         \* datagrams the environment feeds in one run
MaxSynReplies == 2     \* datagrams connect() receives in one run

(***************************************************************************)
(* Program constants.                                                      *)
(***************************************************************************)
window_size_bytes == 400
min_packet_size == 40
max_packet_size == 80
initial_timeout == 300
max_retries == 5
DataLen == 8000        \* len(b'TestData' * 1000)
RecvPollMs == 100      \* settimeout(0.1) in receive_ack
RttDepth == 10         \* len(self.rtt_list) >= 10, rtt_list[-10:]
MedianIndex == 5       \* sorted_rtt[5]
RtoFactor == 5         \* 5 * median_rtt

SYN == 1
SYN_ACK == 2
DATA == 3
ACK == 4
FIN == 5
CONFIG == 6

Min(a, b) == IF a <= b THEN a ELSE b
Max(a, b) == IF a >= b THEN a ELSE b

(***************************************************************************)
(* Bit operations of the header codec, on naturals.                        *)
(***************************************************************************)
RECURSIVE Pow2(_)
Pow2(n) == IF n = 0 THEN 1 ELSE 2 * Pow2(n - 1)

ShiftLeft(x, n) == x * Pow2(n)
ShiftRight(x, n) == x \div Pow2(n)

RECURSIVE BitOr(_, _)
BitOr(a, b) ==
    IF a = 0 THEN b
    ELSE IF b = 0 THEN a
    ELSE Max(a % 2, b % 2) + 2 * BitOr(a \div 2, b \div 2)

\* struct.pack raises struct.error when a field does not fit its format
PackError == <<>>

\* big-endian unsigned 16-bit: two bytes, high first
PackH(x) == <<x \div 256, x % 256>>
UnpackH(hi, lo) == hi * 256 + lo

\* struct.pack('!BHHHB', first, seq, ack, window, length)
\* (a faulty variant packs the 16-bit fields low byte first)
StructPackLE(first, seq, ack, window, length) ==
    IF /\ first \in 0..255
       /\ seq \in 0..65535
       /\ ack \in 0..65535
       /\ window \in 0..65535
       /\ length \in 0..255
    THEN <<first, seq % 256, seq \div 256>> \o PackH(ack) \o PackH(window) \o <<length>>
    ELSE PackError

StructPack(first, seq, ack, window, length) ==
    IF /\ first \in 0..255
       /\ seq \in 0..65535
       /\ ack \in 0..65535
       /\ window \in 0..65535
       /\ length \in 0..255
    THEN <<first>> \o PackH(seq) \o PackH(ack) \o PackH(window) \o <<length>>
    ELSE PackError

\* struct.unpack('!BHHHB', bytes) of exactly 8 bytes
StructUnpack(b) ==
    <<b[1], UnpackH(b[2], b[3]), UnpackH(b[4], b[5]), UnpackH(b[6], b[7]), b[8]>>

\* UDPClient.build_header / UDPServer.build_header (the same code)
build_header(ptype, seq, ack, window, length) ==
    StructPack(BitOr(ShiftLeft(ptype, 4), 15), seq, ack, window, length)

\* UDPClient.parse_header on 8 bytes: <<type, sequence, ack, window, length>>
parse_header(b) ==
    LET header == StructUnpack(b)
    IN  <<ShiftRight(header[1], 4), header[2], header[3], header[4], header[5]>>

\* UDPServer.parse_header
server_parse_header(b) ==
    LET header == StructUnpack(b)
        ptype == ShiftRight(header[1], 4)
        seq == header[2]
        ack == header[3]
        window == header[4]
        length == header[5]
    IN  <<ptype, seq, ack, window, length>>

\* a datagram made of a header and a payload of n bytes
Dgram(hdr, n) == [hdr |-> hdr, payload |-> n]
\* the initiator's address, and another peer's
ClientAddr == "c"
OtherAddr == "x"
\* in c2s: a datagram and the address it comes from (recvfrom's addr)
FromClient(d) == [addr |-> ClientAddr, data |-> d]
FromOther(d) == [addr |-> OtherAddr, data |-> d]
\* in s2c: a datagram and the address it goes to (sendto's addr)
To(a, d) == [addr |-> a, data |-> d]
\* len(data)
DgramLen(d) == Len(d.hdr) + d.payload

\* UDPClient.calculate_data_range
calculate_data_range(seq, packet_size) ==
    LET start == seq * min_packet_size
        end == start + Min(packet_size, DataLen - start)
    IN  <<start, end>>

\* len(self.data[start:end]) for 0 <= start
SliceLen(start, end) == Max(0, Min(end, DataLen) - Min(start, DataLen))

VARIABLES
    \* ---- initiator (UDPClient) ----
    cpc,                    \* where the initiator's single thread is
    target_packets,
    my_seq, retries,        \* locals of connect()
    timeout,                \* self.timeout, ms
    base, next_seq, buffer, current_window_usage,
    rtt_list, retransmit_count, sent_count, initial_sent,
    timer_running,
    syn_waits,              \* the values connect() passed to settimeout, in order
    syn_replies,            \* datagrams recvfrom returned inside connect()
    rtt_clock,              \* what the clock will measure for the next RTT samples
    last_ack,               \* the ack field receive_ack() has just read, else -1
    \* ---- network ----
    c2s, s2c,               \* datagrams in flight, each direction
    \* ---- responder (UDPServer) ----
    drop_rate,              \* percent
    connections, stats,
    threads,                \* handler threads: id -> frame
    policy_dropped,         \* the <<addr, seq>> of DATA the loss policy discarded
    printed,                \* the last line a handler wrote: the kind of its print(), or
                            \* "traceback" when an uncaught exception ended the thread
    injected,               \* datagrams fed by the environment so far
    \* ---- header codec under test ----
    codec_in, codec_bytes, codec_out

connVars == <<my_seq, retries, syn_waits, syn_replies>>
winVars == <<base, next_seq, buffer, current_window_usage>>
statVars == <<rtt_list, retransmit_count, sent_count, initial_sent>>
clientVars == <<cpc, target_packets, connVars, timeout, winVars, statVars,
                timer_running, rtt_clock, last_ack>>
netVars == <<c2s, s2c>>
serverVars == <<drop_rate, connections, stats, threads, policy_dropped, printed,
                injected>>
codecVars == <<codec_in, codec_bytes, codec_out>>
vars == <<clientVars, netVars, serverVars, codecVars>>


(***************************************************************************)
(* The network.  A send appends to the channel unless the datagram is lost *)
(* on the way (keep = FALSE); a receive takes the datagram at any place of *)
(* the channel (reordering) or, in an ordered network, the first.          *)
(***************************************************************************)
Xmit(chan, d, keep) == IF keep THEN Append(chan, d) ELSE chan

RemoveAt(chan, i) == SubSeq(chan, 1, i - 1) \o SubSeq(chan, i + 1, Len(chan))

\* the elements of a set of integers in ascending order
RECURSIVE SortedSeq(_)
SortedSeq(S) ==
    IF S = {} THEN <<>>
    ELSE LET m == CHOOSE x \in S : \A y \in S : x <= y
         IN  <<m>> \o SortedSeq(S \ {m})

\* the datagrams ds (a sequence) whose positions are in kept, appended in order
RECURSIVE XmitAll(_, _, _, _)
XmitAll(chan, ds, kept, i) ==
    IF i > Len(ds) THEN chan
    ELSE XmitAll(Xmit(chan, ds[i], i \in kept), ds, kept, i + 1)

(***************************************************************************)
(* UDPClient.connect                                                       *)
(***************************************************************************)
ClientSeqs == {0, 7, 65535}     \* values explored for random.randint(0, 65535)

\* connect(): retries = 0, my_seq = random.randint(0, 65535)
ConnectBegin(r) ==
    /\ cpc = "main"
    /\ my_seq' = r
    /\ retries' = 0
    /\ cpc' = "syn_send"
    /\ UNCHANGED <<target_packets, syn_waits, syn_replies, timeout, winVars,
                   statVars, timer_running, rtt_clock, last_ack, netVars, serverVars, codecVars>>

\* the head of connect()'s loop: send a SYN and arm the receive deadline,
\* or return False once retries reached max_retries
SynSend(keep) ==
    /\ cpc = "syn_send"
    /\ IF retries < max_retries
       THEN /\ c2s' = Xmit(c2s, FromClient(Dgram(build_header(SYN, my_seq, 0, window_size_bytes, 0), 0)), keep)
            /\ syn_waits' = Append(syn_waits, timeout)
            /\ cpc' = "syn_wait"
       ELSE /\ cpc' = "failed"
            /\ UNCHANGED <<c2s, syn_waits>>
    /\ UNCHANGED <<target_packets, my_seq, retries, syn_replies, timeout, winVars,
                   statVars, timer_running, rtt_clock, last_ack, s2c, serverVars, codecVars>>

\* recvfrom returned the datagram at place i of s2c before the deadline
SynRecv(i, keep) ==
    /\ cpc = "syn_wait"
    /\ i \in DOMAIN s2c
    /\ s2c[i].addr = ClientAddr
    /\ syn_replies < MaxSynReplies
    /\ s2c' = RemoveAt(s2c, i)
    /\ syn_replies' = syn_replies + 1
    /\ LET data == s2c[i].data
       IN  IF Len(data.hdr) < 8
           THEN \* struct.error leaves connect(): only socket.timeout is caught
                /\ cpc' = "crashed"
                /\ UNCHANGED <<c2s, base, next_seq>>
           ELSE LET h == parse_header(data.hdr)
                    ptype == h[1]
                    server_seq == h[2]
                    ack == h[3]
                IN  IF ptype = SYN_ACK /\ ack = my_seq + 1
                    THEN LET ack_pkt == build_header(ACK, my_seq + 1, server_seq + 1,
                                                     window_size_bytes, 0)
                         IN  IF ack_pkt = PackError
                             THEN /\ cpc' = "crashed"
                                  /\ UNCHANGED <<c2s, base, next_seq>>
                             ELSE /\ c2s' = Xmit(c2s, FromClient(Dgram(ack_pkt, 0)), keep)
                                  /\ base' = 0
                                  /\ next_seq' = 0
                                  /\ cpc' = "loop"
                    ELSE /\ cpc' = "syn_send"
                         /\ UNCHANGED <<c2s, base, next_seq>>
    /\ UNCHANGED <<target_packets, my_seq, retries, syn_waits, timeout, buffer,
                   current_window_usage, statVars, timer_running, rtt_clock, last_ack,
                   serverVars, codecVars>>

\* self.timeout *= 2 (a faulty variant adds the initial timeout instead)
backoff_linear(t) == t + initial_timeout

backoff(t) == t * 2

\* except socket.timeout: retries += 1; self.timeout *= 2
SynTimeout ==
    /\ cpc = "syn_wait"
    /\ retries' = retries + 1
    /\ timeout' = backoff(timeout)
    /\ cpc' = "syn_send"
    /\ UNCHANGED <<target_packets, my_seq, syn_waits, syn_replies, winVars, statVars,
                   timer_running, rtt_clock, last_ack, netVars, serverVars, codecVars>>

(***************************************************************************)
(* UDPClient.send_data and the three steps of its loop                     *)
(***************************************************************************)
PacketSizes == {40, 80}     \* values explored for random.randint(40, 80)

\* the head of send_data()'s loop; after it, the FIN
LoopHead(keep) ==
    /\ cpc = "loop"
    /\ IF base < target_packets
       THEN /\ cpc' = "fill"
            /\ UNCHANGED c2s
       ELSE /\ c2s' = Xmit(c2s, FromClient(Dgram(build_header(FIN, next_seq, 0, window_size_bytes, 0), 0)), keep)
            /\ cpc' = "done"
    /\ UNCHANGED <<target_packets, connVars, timeout, winVars, statVars, timer_running,
                   rtt_clock, last_ack, s2c, serverVars, codecVars>>

\* what one acknowledged packet releases from current_window_usage
Released(start, end) == end - start + 1

\* one turn of send_window_packets()'s loop: one DATA packet of r bytes at most
SendWindowPacket(r, keep) ==
    /\ cpc = "fill"
    /\ next_seq < target_packets
    /\ current_window_usage < window_size_bytes
    /\ LET remaining_window == window_size_bytes - current_window_usage
           packet_size == Min(r, remaining_window)
           range == calculate_data_range(next_seq, packet_size)
           start == range[1]
           end == range[2]
           chunk_len == SliceLen(start, end)
           packet == Dgram(build_header(DATA, next_seq, 0, window_size_bytes, chunk_len),
                           chunk_len)
       IN  /\ c2s' = Xmit(c2s, FromClient(packet), keep)
           /\ buffer' = [s \in DOMAIN buffer \cup {next_seq} |->
                           IF s = next_seq
                           THEN [packet |-> packet, acked |-> FALSE, start |-> start,
                                 end |-> end, retries |-> 0]
                           ELSE buffer[s]]
           /\ sent_count' = sent_count + 1
           /\ initial_sent' = initial_sent + 1
           /\ next_seq' = next_seq + 1
           /\ current_window_usage' = current_window_usage + chunk_len
    /\ timer_running' = TRUE          \* start_timer() unless it runs already
    /\ UNCHANGED <<cpc, target_packets, connVars, timeout, base, rtt_list,
                   retransmit_count, rtt_clock, last_ack, s2c, serverVars, codecVars>>

\* send_window_packets() returns: its loop condition is false
SendWindowDone ==
    /\ cpc = "fill"
    /\ ~(next_seq < target_packets /\ current_window_usage < window_size_bytes)
    /\ cpc' = "recv"
    /\ UNCHANGED <<target_packets, connVars, timeout, winVars, statVars, timer_running,
                   rtt_clock, last_ack, netVars, serverVars, codecVars>>

\* sorted(xs) for a sequence of integers
RECURSIVE Insert(_, _)
Insert(x, xs) ==
    IF xs = <<>> THEN <<x>>
    ELSE IF x <= Head(xs) THEN <<x>> \o xs
    ELSE <<Head(xs)>> \o Insert(x, Tail(xs))

RECURSIVE sorted(_)
sorted(xs) == IF xs = <<>> THEN <<>> ELSE Insert(Head(xs), sorted(Tail(xs)))

\* xs[-n:]
LastN(xs, n) == IF Len(xs) <= n THEN xs ELSE SubSeq(xs, Len(xs) - n + 1, Len(xs))

\* UDPClient.adjust_timeout: the new self.timeout, ms
\* (a faulty variant takes the lower of the two middle samples)
adjust_timeout_lower(rtts, old) ==
    IF Len(rtts) >= RttDepth
    THEN RtoFactor * sorted(LastN(rtts, RttDepth))[MedianIndex]
    ELSE old

adjust_timeout(rtts, old) ==
    IF Len(rtts) >= RttDepth
    THEN LET sorted_rtt == sorted(LastN(rtts, RttDepth))
             median_rtt == sorted_rtt[MedianIndex + 1]     \* 0-based index 5
         IN  RtoFactor * median_rtt
    ELSE old

\* the base-advance loop in a faulty variant that moves base past the
\* acknowledged packets but leaves them in the buffer
RECURSIVE AdvanceBaseKeep(_, _)
AdvanceBaseKeep(buf, b) ==
    IF b \in DOMAIN buf /\ buf[b].acked
    THEN <<buf, AdvanceBaseKeep([s \in DOMAIN buf \ {b} |-> buf[s]], b + 1)[2]>>
    ELSE <<buf, b>>

\* while self.base in self.buffer and self.buffer[self.base]['acked']
RECURSIVE AdvanceBase(_, _)
AdvanceBase(buf, b) ==
    IF b \in DOMAIN buf /\ buf[b].acked
    THEN AdvanceBase([s \in DOMAIN buf \ {b} |-> buf[s]], b + 1)
    ELSE <<buf, b>>

RECURSIVE SumReleased(_, _)
SumReleased(buf, S) ==
    IF S = {} THEN 0
    ELSE LET s == CHOOSE x \in S : TRUE
         IN  Released(buf[s].start, buf[s].end) + SumReleased(buf, S \ {s})

\* the base after an ACK was processed
\* (a faulty variant jumps to the ack value instead of walking the buffer)
NewBaseJump(ack, walked) == ack

NewBase(ack, walked) == walked

\* receive_ack() got the datagram at place i of s2c
RecvDatagram(i) ==
    /\ cpc = "recv"
    /\ i \in DOMAIN s2c
    /\ s2c[i].addr = ClientAddr
    /\ s2c' = RemoveAt(s2c, i)
    /\ cpc' = "timer"
    /\ LET data == s2c[i].data
           h == parse_header(data.hdr)
           ptype == h[1]
           ack == h[3]
       IN  IF DgramLen(data) >= 8 /\ ptype = ACK /\ ack > 0
           THEN LET newly == {s \in DOMAIN buffer : s < ack /\ ~buffer[s].acked}
                    n == Cardinality(newly)
                    marked == [s \in DOMAIN buffer |->
                                 IF s \in newly THEN [buffer[s] EXCEPT !.acked = TRUE]
                                 ELSE buffer[s]]
                    adv == AdvanceBase(marked, base)
                    new_base == NewBase(ack, adv[2])
                IN  /\ n <= Len(rtt_clock)
                    /\ rtt_list' = rtt_list \o SubSeq(rtt_clock, 1, n)
                    /\ rtt_clock' = SubSeq(rtt_clock, n + 1, Len(rtt_clock))
                    /\ current_window_usage' =
                           current_window_usage - SumReleased(buffer, newly)
                    /\ buffer' = adv[1]
                    /\ base' = new_base
                    /\ timer_running' =
                           IF base # new_base /\ DOMAIN adv[1] # {} THEN TRUE
                           ELSE timer_running
                    /\ timeout' = adjust_timeout(rtt_list', timeout)
                    /\ last_ack' = ack
           ELSE /\ last_ack' = -1
                /\ UNCHANGED <<rtt_list, rtt_clock, current_window_usage, buffer, base,
                               timer_running, timeout>>
    /\ UNCHANGED <<target_packets, connVars, next_seq, retransmit_count, sent_count,
                   initial_sent, c2s, serverVars, codecVars>>

\* receive_ack(): nothing arrived within RecvPollMs (socket.timeout)
RecvTimeout ==
    /\ cpc = "recv"
    /\ cpc' = "timer"
    /\ UNCHANGED <<target_packets, connVars, timeout, winVars, statVars, timer_running,
                   rtt_clock, last_ack, netVars, serverVars, codecVars>>

\* the packets retransmitted by a faulty variant of handle_timeout() that
\* resends only the lowest unacknowledged packet
UnackedLowest(buf) ==
    LET un == {s \in DOMAIN buf : ~buf[s].acked}
    IN  IF un = {} THEN <<>> ELSE <<CHOOSE s \in un : \A r \in un : s <= r>>

\* the packets handle_timeout() retransmits, in the order it sends them
Unacked(buf) == SortedSeq({s \in DOMAIN buf : ~buf[s].acked})

\* UDPClient.check_timer: expired says whether time.time() - self.timer_start
\* exceeds self.timeout
\* (a faulty variant reads the running flag the wrong way round)
check_timer_stopped(running, expired) == ~running /\ expired

check_timer(running, expired) == running /\ expired

\* check_timer() and, when it says so, handle_timeout(); kept: the places, in the
\* order of sending, of the retransmitted datagrams that are not lost on the way
TimerCheck(expired, kept) ==
    /\ cpc = "timer"
    /\ cpc' = "loop"
    /\ last_ack' = -1
    /\ IF check_timer(timer_running, expired)
       THEN LET un == Unacked(buffer)
                pkts == [k \in 1..Len(un) |-> FromClient(buffer[un[k]].packet)]
            IN  /\ retransmit_count < MaxRetransmit
                /\ kept \subseteq 1..Len(un)
                /\ c2s' = XmitAll(c2s, pkts, kept, 1)
                /\ buffer' = [s \in DOMAIN buffer |->
                                IF ~buffer[s].acked
                                THEN [buffer[s] EXCEPT !.retries = @ + 1]
                                ELSE buffer[s]]
                /\ sent_count' = sent_count + Len(un)
                /\ retransmit_count' = retransmit_count + Len(un)
                /\ timer_running' = (DOMAIN buffer # {})
       ELSE /\ kept = {}
            /\ UNCHANGED <<c2s, buffer, sent_count, retransmit_count, timer_running>>
    /\ UNCHANGED <<target_packets, connVars, timeout, base, next_seq,
                   current_window_usage, rtt_list, initial_sent, rtt_clock, s2c,
                   serverVars, codecVars>>

(***************************************************************************)
(* UDPServer.  start() hands every datagram to a thread of its own; a      *)
(* thread runs handle_client() and the threads interleave between their    *)
(* accesses to self.connections.  A thread that raises ends there; the     *)
(* receiving loop goes on.                                                 *)
(***************************************************************************)
ServerSeqs == {3, 65535}        \* values explored for random.randint(0, 65535)
ServerTimeLen == 15             \* len(now.strftime('%H:%M:%S.%f'))

IdleThread == [pc |-> "idle"]

Idle(t) == [threads EXCEPT ![t] = IdleThread]
Goto(t, where) == [threads EXCEPT ![t].pc = where]

\* self.connections with the record of address a set to rec
WithRecord(a, rec) ==
    [b \in DOMAIN connections \cup {a} |-> IF b = a THEN rec ELSE connections[b]]

\* start(): recvfrom returns the datagram at place i of c2s and a thread is started
ServerRecv(i) ==
    /\ i \in DOMAIN c2s
    /\ \E t \in 1..MaxThreads : threads[t].pc = "idle"
    /\ LET t == CHOOSE u \in 1..MaxThreads :
                  /\ threads[u].pc = "idle"
                  /\ \A v \in 1..(u - 1) : threads[v].pc # "idle"
       IN  threads' = [threads EXCEPT ![t] =
                          [pc |-> "start", addr |-> c2s[i].addr, data |-> c2s[i].data,
                           ptype |-> -1, seq |-> -1, expected_seq |-> -1, my_seq |-> -1]]
    /\ c2s' = RemoveAt(c2s, i)
    /\ UNCHANGED <<clientVars, s2c, drop_rate, connections, stats, policy_dropped, printed,
                   injected, codecVars>>

\* handle_client() in a faulty variant that zero-pads a short header
\* instead of raising struct.error
HandlerStartPadded(t) ==
    /\ threads[t].pc = "start"
    /\ LET f == threads[t]
           pad == [k \in 1..(8 - Min(8, Len(f.data.hdr))) |-> 0]
           h == server_parse_header(f.data.hdr \o pad)
       IN  threads' = [threads EXCEPT ![t].ptype = h[1], ![t].seq = h[2],
                          ![t].pc = IF f.addr \notin DOMAIN connections
                                    THEN "create" ELSE "dispatch"]
    /\ UNCHANGED <<clientVars, netVars, drop_rate, connections, stats, policy_dropped,
                   printed, injected, codecVars>>

\* handle_client(): header = data[:8]; parse_header(header); if addr not in ...
HandlerStart(t) ==
    /\ threads[t].pc = "start"
    /\ LET f == threads[t]
       IN  IF Len(f.data.hdr) < 8
           THEN threads' = Idle(t)       \* struct.error ends the thread
           ELSE LET h == server_parse_header(f.data.hdr)
                IN  threads' = [threads EXCEPT ![t].ptype = h[1], ![t].seq = h[2],
                                   ![t].pc = IF f.addr \notin DOMAIN connections
                                             THEN "create" ELSE "dispatch"]
    /\ printed' = IF Len(threads[t].data.hdr) < 8 THEN "traceback" ELSE printed
    /\ UNCHANGED <<clientVars, netVars, drop_rate, connections, stats, policy_dropped,
                   injected, codecVars>>

\* self.connections[addr] = {'state': 'CLOSED', 'expected_seq': 0, 'my_seq': 0}
HandlerCreate(t) ==
    /\ threads[t].pc = "create"
    /\ connections' = WithRecord(threads[t].addr,
                                 [state |-> "CLOSED", expected_seq |-> 0, my_seq |-> 0])
    /\ threads' = Goto(t, "dispatch")
    /\ UNCHANGED <<clientVars, netVars, drop_rate, stats, policy_dropped, printed, injected,
                   codecVars>>

\* if ptype == 1: the SYN_ACK is sent (the record is set in the next step)
HandleSyn(t, r, keep) ==
    /\ threads[t].pc = "dispatch"
    /\ threads[t].ptype = SYN
    /\ LET f == threads[t]
           syn_ack == build_header(SYN_ACK, r, f.seq + 1, 400, 0)
       IN  IF syn_ack = PackError
           THEN /\ threads' = Idle(t)    \* struct.error ends the thread
                /\ UNCHANGED <<s2c, stats>>
           ELSE /\ s2c' = Xmit(s2c, To(f.addr, Dgram(syn_ack, 0)), keep)
                /\ stats' = [stats EXCEPT !.s2c_sent = @ + 1]
                /\ threads' = [threads EXCEPT ![t].my_seq = r, ![t].pc = "syn_set"]
    /\ printed' = IF build_header(SYN_ACK, r, threads[t].seq + 1, 400, 0) = PackError
                  THEN "traceback" ELSE "syn"
    /\ UNCHANGED <<clientVars, c2s, drop_rate, connections, policy_dropped,
                   injected, codecVars>>

\* self.connections[addr] = {'state': 'SYN_RECEIVED', 'expected_seq': 0, 'my_seq': my_seq}
SynSet(t) ==
    /\ threads[t].pc = "syn_set"
    /\ connections' = WithRecord(threads[t].addr,
                                 [state |-> "SYN_RECEIVED", expected_seq |-> 0,
                                  my_seq |-> threads[t].my_seq])
    /\ threads' = Idle(t)
    /\ UNCHANGED <<clientVars, netVars, drop_rate, stats, policy_dropped, printed, injected,
                   codecVars>>

\* elif ptype == 4 and addr in self.connections: if state == 'SYN_RECEIVED'
HandleAck(t) ==
    /\ threads[t].pc = "dispatch"
    /\ threads[t].ptype = ACK
    /\ LET a == threads[t].addr
       IN  IF a \in DOMAIN connections /\ connections[a].state = "SYN_RECEIVED"
           THEN threads' = Goto(t, "ack_est") /\ printed' = "established"
           ELSE threads' = Idle(t) /\ UNCHANGED printed
    /\ UNCHANGED <<clientVars, netVars, drop_rate, connections, stats, policy_dropped,
                   injected, codecVars>>

\* self.connections[addr]['state'] = 'ESTABLISHED'   (KeyError ends the thread)
AckEstablish(t) ==
    /\ threads[t].pc = "ack_est"
    /\ LET a == threads[t].addr
       IN  IF a \in DOMAIN connections
           THEN /\ connections' = [connections EXCEPT ![a].state = "ESTABLISHED"]
                /\ threads' = Goto(t, "ack_reset")
           ELSE /\ threads' = Idle(t)      \* KeyError ends the thread
                /\ UNCHANGED connections
    /\ printed' = IF threads[t].addr \in DOMAIN connections THEN printed ELSE "traceback"
    /\ UNCHANGED <<clientVars, netVars, drop_rate, stats, policy_dropped, injected,
                   codecVars>>

\* self.connections[addr]['expected_seq'] = 0, then the CONFIG packet
AckReset(t, keep) ==
    /\ threads[t].pc = "ack_reset"
    /\ threads' = Idle(t)
    /\ LET a == threads[t].addr
       IN  IF a \in DOMAIN connections
           THEN /\ connections' = [connections EXCEPT ![a].expected_seq = 0]
                /\ s2c' = Xmit(s2c, To(a, Dgram(build_header(CONFIG, 0, 0, 400, 1), 1)), keep)
                /\ stats' = [stats EXCEPT !.s2c_sent = @ + 1]
           ELSE UNCHANGED <<connections, s2c, stats>>   \* KeyError ends the thread
    /\ printed' = IF threads[t].addr \in DOMAIN connections THEN printed ELSE "traceback"
    /\ UNCHANGED <<clientVars, c2s, drop_rate, policy_dropped, injected,
                   codecVars>>

\* if self.connections[addr]['state'] != 'ESTABLISHED': return
\* (a faulty variant lets a peer in SYN_RECEIVED through)
data_rejected_closed(state) == state = "CLOSED"

data_rejected(state) == state # "ESTABLISHED"

\* elif ptype == 3 and addr in self.connections: the state check
HandleData(t) ==
    /\ threads[t].pc = "dispatch"
    /\ threads[t].ptype = DATA
    /\ LET a == threads[t].addr
       IN  IF a \notin DOMAIN connections
           THEN threads' = Idle(t) /\ UNCHANGED printed
           ELSE IF data_rejected(connections[a].state)
           THEN threads' = Idle(t) /\ printed' = "rejected"
           ELSE threads' = Goto(t, "data_read") /\ UNCHANGED printed
    /\ UNCHANGED <<clientVars, netVars, drop_rate, connections, stats, policy_dropped,
                   injected, codecVars>>

\* random.random() < self.drop_rate, for a drop_rate in percent
MayDrop(rate, drop) == IF drop THEN rate > 0 ELSE rate < 100

\* stats 'sent' += 1; expected_seq = self.connections[addr]['expected_seq'];
\* the loss policy
DataRead(t, drop) ==
    /\ threads[t].pc = "data_read"
    /\ IF threads[t].addr \in DOMAIN connections THEN MayDrop(drop_rate, drop) ELSE ~drop
    /\ LET f == threads[t]
       IN  IF f.addr \notin DOMAIN connections
           THEN /\ stats' = [stats EXCEPT !.c2s_sent = @ + 1]
                /\ threads' = Idle(t)    \* KeyError ends the thread
                /\ printed' = "traceback"
                /\ UNCHANGED policy_dropped
           ELSE IF drop
           THEN /\ stats' = [stats EXCEPT !.c2s_sent = @ + 1, !.c2s_dropped = @ + 1]
                /\ policy_dropped' = policy_dropped \cup {<<f.addr, f.seq>>}
                /\ printed' = "dropped"
                /\ threads' = Idle(t)
           ELSE /\ stats' = [stats EXCEPT !.c2s_sent = @ + 1]
                /\ threads' = [threads EXCEPT
                                  ![t].expected_seq = connections[f.addr].expected_seq,
                                  ![t].pc = "data_cmp"]
                /\ UNCHANGED <<policy_dropped, printed>>
    /\ UNCHANGED <<clientVars, netVars, drop_rate, connections, injected, codecVars>>

\* if seq == expected_seq: self.connections[addr]['expected_seq'] += 1
DataCompare(t) ==
    /\ threads[t].pc = "data_cmp"
    /\ LET f == threads[t]
       IN  IF f.seq = f.expected_seq
           THEN IF f.addr \in DOMAIN connections
                THEN /\ connections' = [connections EXCEPT ![f.addr].expected_seq = @ + 1]
                     /\ threads' = Goto(t, "data_ack")
                ELSE /\ threads' = Idle(t)   \* KeyError ends the thread
                     /\ UNCHANGED connections
           ELSE /\ threads' = Goto(t, "data_ack")
                /\ UNCHANGED connections
    /\ printed' = IF threads[t].seq # threads[t].expected_seq THEN "out_of_order"
                  ELSE IF threads[t].addr \in DOMAIN connections THEN "received"
                  ELSE "traceback"
    /\ UNCHANGED <<clientVars, netVars, drop_rate, stats, policy_dropped, injected,
                   codecVars>>

\* ack_pkt = build_header(4, 0, self.connections[addr]['expected_seq'], 400, ...)
DataAck(t, keep) ==
    /\ threads[t].pc = "data_ack"
    /\ threads' = Idle(t)
    /\ LET a == threads[t].addr
       IN  IF a \in DOMAIN connections
           THEN /\ s2c' = Xmit(s2c, To(a, Dgram(build_header(ACK, 0, connections[a].expected_seq,
                                                             400, ServerTimeLen),
                                                ServerTimeLen)), keep)
                /\ stats' = [stats EXCEPT !.s2c_sent = @ + 1]
           ELSE UNCHANGED <<s2c, stats>>     \* KeyError ends the thread
    /\ printed' = IF threads[t].addr \in DOMAIN connections THEN printed ELSE "traceback"
    /\ UNCHANGED <<clientVars, c2s, drop_rate, connections, policy_dropped,
                   injected, codecVars>>

\* elif ptype == 5 and addr in self.connections: the FIN acknowledgment
HandleFin(t, keep) ==
    /\ threads[t].pc = "dispatch"
    /\ threads[t].ptype = FIN
    /\ LET f == threads[t]
           fin_ack == build_header(FIN, 0, f.seq + 1, 400, 0)
       IN  IF f.addr \in DOMAIN connections /\ fin_ack # PackError
           THEN /\ s2c' = Xmit(s2c, To(f.addr, Dgram(fin_ack, 0)), keep)
                /\ stats' = [stats EXCEPT !.s2c_sent = @ + 1]
                /\ threads' = Goto(t, "fin_del")
           ELSE /\ threads' = Idle(t)
                /\ UNCHANGED <<s2c, stats>>
    /\ printed' = IF threads[t].addr \notin DOMAIN connections THEN printed
                  ELSE IF build_header(FIN, 0, threads[t].seq + 1, 400, 0) = PackError
                  THEN "traceback" ELSE "fin"
    /\ UNCHANGED <<clientVars, c2s, drop_rate, connections, policy_dropped,
                   injected, codecVars>>

\* del self.connections[addr]   (KeyError ends the thread)
FinDelete(t) ==
    /\ threads[t].pc = "fin_del"
    /\ threads' = Idle(t)
    /\ LET a == threads[t].addr
       IN  connections' = [b \in DOMAIN connections \ {a} |-> connections[b]]
    /\ printed' = IF threads[t].addr \in DOMAIN connections THEN printed ELSE "traceback"
    /\ UNCHANGED <<clientVars, netVars, drop_rate, stats, policy_dropped, injected,
                   codecVars>>

\* a packet of any other type (CONFIG, SYN_ACK, an unknown type): no branch
HandleOther(t) ==
    /\ threads[t].pc = "dispatch"
    /\ threads[t].ptype \notin {SYN, ACK, DATA, FIN}
    /\ threads' = Idle(t)
    /\ UNCHANGED <<clientVars, netVars, drop_rate, connections, stats, policy_dropped, printed,
                   injected, codecVars>>

\* the steps of the handler threads that send nothing
ThreadStep(t) ==
    \/ HandlerStart(t)
    \/ HandlerCreate(t)
    \/ SynSet(t)
    \/ HandleAck(t)
    \/ AckEstablish(t)
    \/ HandleData(t)
    \/ DataCompare(t)
    \/ FinDelete(t)

(***************************************************************************)
(* Initial states: the objects as their constructors leave them.           *)
(***************************************************************************)
SpecExampleRtts == <<10, 12, 11, 13, 9, 15, 14, 8, 16, 17>>

\* the clock readings explored: MaxTarget RTT samples each
RttScripts ==
    { [k \in 1..MaxTarget |-> SpecExampleRtts[((k - 1) % 10) + 1]],
      [k \in 1..MaxTarget |-> 60 - 3 * k],
      [k \in 1..MaxTarget |-> IF k % 2 = 0 THEN 4 ELSE 90 + k] }

\* UDPClient.__init__
ClientInit(targets, scripts) ==
    /\ cpc = "main"
    /\ target_packets \in targets
    /\ my_seq = 0
    /\ retries = 0
    /\ timeout = initial_timeout
    /\ base = 0
    /\ next_seq = 0
    /\ buffer = [s \in {} |-> 0]
    /\ current_window_usage = 0
    /\ rtt_list = <<>>
    /\ retransmit_count = 0
    /\ sent_count = 0
    /\ initial_sent = 0
    /\ timer_running = FALSE
    /\ syn_waits = <<>>
    /\ syn_replies = 0
    /\ rtt_clock \in scripts
    /\ last_ack = -1

\* UDPServer.__init__
ServerInit(rates) ==
    /\ drop_rate \in rates
    /\ connections = [a \in {} |-> 0]
    /\ stats = [c2s_sent |-> 0, c2s_dropped |-> 0, s2c_sent |-> 0]
    /\ threads = [t \in 1..MaxThreads |-> IdleThread]
    /\ policy_dropped = {}
    /\ printed = "none"
    /\ injected = 0

NetInit ==
    /\ c2s = <<>>
    /\ s2c = <<>>

CodecIdle ==
    /\ codec_in = <<>>
    /\ codec_bytes = <<>>
    /\ codec_out = <<>>

(***************************************************************************)
(* The sender against an arbitrary peer: every datagram it sends is lost,  *)
(* and the replies it receives are whatever the environment sends.         *)
(***************************************************************************)
\* the replies fed to the sender
SenderReplies ==
    { Dgram(build_header(ACK, 0, a, window_size_bytes, 15), 15) :
        a \in {0, 1, base, base + 1, base + 2, next_seq} }
    \cup { Dgram(build_header(SYN_ACK, 9, my_seq + 1, window_size_bytes, 0), 0),
           Dgram(build_header(CONFIG, 0, 0, window_size_bytes, 1), 1),
           Dgram(<<79, 0, 1>>, 0) }

\* a datagram reaches the sender's socket
EnvReply(d) ==
    /\ s2c = <<>>
    /\ cpc \in {"syn_wait", "recv"}
    /\ cpc = "syn_wait" => syn_replies < MaxSynReplies
    /\ s2c' = <<To(ClientAddr, d)>>
    /\ UNCHANGED <<clientVars, c2s, serverVars, codecVars>>

InitSender(targets, scripts) ==
    /\ ClientInit(targets, scripts)
    /\ ServerInit({0})
    /\ NetInit
    /\ CodecIdle

\* sizes: the packet sizes drawn
NextSender(sizes) ==
    \/ ConnectBegin(7)
    \/ SynSend(FALSE)
    \/ \E i \in DOMAIN s2c : SynRecv(i, FALSE)
    \/ LoopHead(FALSE)
    \/ \E r \in sizes : SendWindowPacket(r, FALSE)
    \/ SendWindowDone
    \/ \E i \in DOMAIN s2c : RecvDatagram(i)
    \/ RecvTimeout
    \/ \E expired \in BOOLEAN : TimerCheck(expired, {})
    \/ \E d \in SenderReplies : EnvReply(d)

WindowTarget == 7      \* target_packets of the window runs

\* the window accounting, with both packet sizes and a peer that answers the
\* first SYN in time
InitWindow == InitSender({WindowTarget}, {CHOOSE f \in RttScripts : f[1] = 10})

NextWindow == NextSender(PacketSizes)

SpecWindow == InitWindow /\ [][NextWindow]_vars

\* the timeout controller, with all clock scripts, packets of the minimum size
\* and a peer that answers the second SYN at the latest
InitRto == InitSender({MaxTarget}, RttScripts)

NextRto ==
    \/ NextSender({min_packet_size})
    \/ (retries = 0 /\ SynTimeout)

SpecRto == InitRto /\ [][NextRto]_vars

(***************************************************************************)
(* Claims about the sender's window and timeout                            *)
(***************************************************************************)
\* the payload bytes of the DATA packets sent and not yet acknowledged
RECURSIVE SumPayload(_, _)
SumPayload(buf, S) ==
    IF S = {} THEN 0
    ELSE LET s == CHOOSE x \in S : TRUE
         IN  buf[s].packet.payload + SumPayload(buf, S \ {s})

BytesInFlight == SumPayload(buffer, {s \in DOMAIN buffer : ~buffer[s].acked})

\* C1: in every reachable state of the sender, the payload bytes sent and not
\* yet acknowledged are at most the 400-byte window.
C1_WindowBound == BytesInFlight <= window_size_bytes

\* C2: whatever ACKs the sender receives, no step decreases its base.
C2_BaseMonotone == [][base' >= base]_vars

\* a stale ACK (below the base reached so far) has just been processed
C2_Witness == cpc = "timer" /\ base >= 2 /\ last_ack \in 1..(base - 1)

\* m is the element at 0-based index k of the ascending sort of xs
IsOrderStatistic(m, xs, k) ==
    /\ \E i \in DOMAIN xs : xs[i] = m
    /\ Cardinality({i \in DOMAIN xs : xs[i] < m}) <= k
    /\ Cardinality({i \in DOMAIN xs : xs[i] <= m}) >= k + 1

BackoffTimeouts == {initial_timeout * Pow2(k) : k \in 0..max_retries}

ServerRates == {30}             \* drop_rate in percent: the default 0.3

\* the datagrams fed to the responder
ServerInputs ==
    { FromClient(Dgram(build_header(SYN, 7, 0, window_size_bytes, 0), 0)),
      FromClient(Dgram(build_header(ACK, 8, 4, window_size_bytes, 0), 0)),
      FromClient(Dgram(build_header(DATA, 0, 0, window_size_bytes, 40), 40)),
      FromClient(Dgram(build_header(DATA, 1, 0, window_size_bytes, 40), 40)),
      FromClient(Dgram(build_header(FIN, 2, 0, window_size_bytes, 0), 0)),
      FromClient(Dgram(build_header(CONFIG, 0, 0, window_size_bytes, 1), 1)) }

\* a peer takes the replies sent so far off the wire and sends a datagram
EnvSend(m) ==
    /\ c2s = <<>>
    /\ injected < MaxInject
    /\ c2s' = <<m>>
    /\ s2c' = <<>>
    /\ injected' = injected + 1
    /\ UNCHANGED <<clientVars, drop_rate, connections, stats, threads,
                   policy_dropped, printed, codecVars>>

InitServer ==
    /\ ClientInit({5}, {CHOOSE f \in RttScripts : f[1] = 10})
    /\ ServerInit(ServerRates)
    /\ NetInit
    /\ CodecIdle

NextServer ==
    \/ \E m \in ServerInputs : EnvSend(m)
    \/ \E i \in DOMAIN c2s : ServerRecv(i)
    \/ \E t \in 1..MaxThreads : ThreadStep(t)
    \/ \E t \in 1..MaxThreads : HandleOther(t)
    \/ \E t \in 1..MaxThreads : HandleSyn(t, 3, TRUE)
    \/ \E t \in 1..MaxThreads : AckReset(t, TRUE)
    \/ \E t \in 1..MaxThreads, drop \in BOOLEAN : DataRead(t, drop)
    \/ \E t \in 1..MaxThreads : DataAck(t, TRUE)
    \/ \E t \in 1..MaxThreads : HandleFin(t, TRUE)

SpecServer == InitServer /\ [][NextServer]_vars

\* thread t takes a step
Steps(t) == threads'[t] # threads[t]

\* C10: a DATA packet whose peer is CLOSED or SYN_RECEIVED when the handler
\* checks the state ends the handler there: no reply is sent, no counter
\* (received, simulated loss, replies) changes, and no connection record
\* (state, expected_seq) changes.
C10_RejectedData ==
    [][\A t \in 1..MaxThreads :
          ( /\ threads[t].pc = "dispatch"
            /\ threads[t].ptype = DATA
            /\ threads[t].addr \in DOMAIN connections
            /\ connections[threads[t].addr].state \in {"CLOSED", "SYN_RECEIVED"}
            /\ Steps(t) )
          => /\ threads'[t] = IdleThread
             /\ s2c' = s2c
             /\ stats' = stats
             /\ policy_dropped' = policy_dropped
             /\ connections' = connections]_vars

\* a DATA packet was rejected while its peer was in SYN_RECEIVED, and the
\* only reply ever sent is the SYN_ACK
C10_Witness ==
    /\ printed = "rejected"
    /\ ClientAddr \in DOMAIN connections
    /\ connections[ClientAddr].state = "SYN_RECEIVED"
    /\ connections[ClientAddr].expected_seq = 0
    /\ stats = [c2s_sent |-> 0, c2s_dropped |-> 0, s2c_sent |-> 1]
    /\ \A t \in 1..MaxThreads : threads[t] = IdleThread

\* C3: the step of a DATA handler that compares and updates (the packet has
\* passed the loss policy, the peer record exists) raises the peer's
\* expected_seq by exactly 1 when the packet's sequence number equals the
\* peer's expected_seq at that moment, and leaves it unchanged otherwise.
C3_DataRule ==
    [][\A t \in 1..MaxThreads :
          ( /\ threads[t].pc = "data_cmp"
            /\ Steps(t)
            /\ threads[t].addr \in DOMAIN connections )
          => LET a == threads[t].addr
                 e == connections[a].expected_seq
             IN  /\ a \in DOMAIN connections'
                 /\ connections'[a].expected_seq =
                        IF threads[t].seq = e THEN e + 1 ELSE e]_vars

(***************************************************************************)
(* The header codec on its own: a header is built from drawn fields, a     *)
(* peer may set the reserved nibble to any value, and either side parses.  *)
(***************************************************************************)
CodecTypes == 0..15
CodecSeqs == {0, 255, 256, 4660, 65535}
CodecAcks == {0, 258, 65535}
CodecWindows == {400, 65535}
CodecLengths == {0, 255}
Nibbles == 0..15

InitCodec ==
    /\ ClientInit({5}, {CHOOSE f \in RttScripts : f[1] = 10})
    /\ ServerInit({0})
    /\ NetInit
    /\ codec_in \in CodecTypes \X CodecSeqs \X CodecAcks \X CodecWindows \X CodecLengths
    /\ codec_bytes = <<>>
    /\ codec_out = <<>>

\* build_header(ptype, seq, ack, window, length)
Encode ==
    /\ codec_bytes = <<>>
    /\ codec_bytes' = build_header(codec_in[1], codec_in[2], codec_in[3], codec_in[4],
                                   codec_in[5])
    /\ UNCHANGED <<clientVars, netVars, serverVars, codec_in, codec_out>>

\* a header whose reserved bits were set by another implementation
SetReserved(n) ==
    /\ codec_bytes # <<>>
    /\ codec_out = <<>>
    /\ codec_bytes' = [codec_bytes EXCEPT ![1] = (@ \div 16) * 16 + n]
    /\ UNCHANGED <<clientVars, netVars, serverVars, codec_in, codec_out>>

\* UDPClient.parse_header(data)
ClientDecode ==
    /\ codec_bytes # <<>>
    /\ codec_out' = parse_header(codec_bytes)
    /\ UNCHANGED <<clientVars, netVars, serverVars, codec_in, codec_bytes>>

\* UDPServer.parse_header(data)
ServerDecode ==
    /\ codec_bytes # <<>>
    /\ codec_out' = server_parse_header(codec_bytes)
    /\ UNCHANGED <<clientVars, netVars, serverVars, codec_in, codec_bytes>>

NextCodec ==
    \/ Encode
    \/ \E n \in Nibbles : SetReserved(n)
    \/ ClientDecode
    \/ ServerDecode

SpecCodec == InitCodec /\ [][NextCodec]_vars

\* C8: the encoding of valid fields is 8 bytes whose first byte is
\* 16 * type + 15; whatever the reserved nibble of the first byte then is,
\* decoding (by either side) returns exactly the fields that were encoded.
C8_RoundTrip ==
    /\ [][codec_bytes = <<>> /\ codec_bytes' # <<>>
            => Len(codec_bytes') = 8 /\ codec_bytes'[1] = 16 * codec_in[1] + 15]_vars
    /\ [](codec_out # <<>> => codec_out = codec_in)

\* a header with distinct high and low bytes in its 16-bit fields was decoded
\* after its reserved nibble was changed
C8_Witness ==
    /\ codec_out = <<15, 4660, 258, 400, 255>>
    /\ codec_out = codec_in
    /\ codec_bytes[1] = 240

(***************************************************************************)
(* connect() and what follows it, against a peer that may stay silent.     *)
(***************************************************************************)
ConnectTarget == 2      \* target_packets of the handshake runs

InitConnect == InitSender({ConnectTarget}, {CHOOSE f \in RttScripts : f[1] = 10})

NextConnect ==
    \/ \E r \in ClientSeqs : ConnectBegin(r)
    \/ SynTimeout
    \/ NextSender({min_packet_size})

SpecConnect == InitConnect /\ [][NextConnect]_vars

IsPrefix(s, t) == Len(s) <= Len(t) /\ s = SubSeq(t, 1, Len(s))

\* C5: as long as no reply has been received, the SYNs sent so far are at
\* most 5, the receive deadlines armed for them are 300, 600, 1200, 2400 and
\* 4800 ms in that order, and no DATA has been sent; when connect() returns
\* False without having received a reply, exactly those 5 SYNs were sent; and
\* after that failure the initiator does nothing more.
C5_HandshakeFailure ==
    /\ [](syn_replies = 0 =>
            /\ cpc \in {"main", "syn_send", "syn_wait", "failed"}
            /\ IsPrefix(syn_waits, <<300, 600, 1200, 2400, 4800>>)
            /\ sent_count = 0 /\ next_seq = 0 /\ DOMAIN buffer = {})
    /\ [](cpc = "failed" /\ syn_replies = 0 =>
            syn_waits = <<300, 600, 1200, 2400, 4800>>)
    /\ [][cpc = "failed" => cpc' = "failed"]_vars

\* connect() gave up after five silent waits
C5_Witness ==
    /\ cpc = "failed"
    /\ syn_replies = 0
    /\ Len(syn_waits) = 5
    /\ retries = max_retries
    /\ timeout = 9600

(***************************************************************************)
(* Initiator and responder together over a network that delivers in order. *)
(* ackKeeps: whether the handshake ACK may be lost; every other datagram   *)
(* arrives.  The deadlines (of the SYN wait, of the receive poll, of the    *)
(* retransmission timer) expire only when nothing is on the way.           *)
(***************************************************************************)
Quiet ==
    /\ c2s = <<>>
    /\ s2c = <<>>
    /\ \A t \in 1..MaxThreads : threads[t].pc = "idle"

\* the steps of the initiator
ClientStep(sizes, ackKeeps) ==
    \/ ConnectBegin(7)
    \/ SynSend(TRUE)
    \/ \E keep \in ackKeeps : SynRecv(1, keep)
    \/ LoopHead(TRUE)
    \/ \E r \in sizes : SendWindowPacket(r, TRUE)
    \/ SendWindowDone
    \/ RecvDatagram(1)
    \/ Quiet /\ RecvTimeout
    \/ TimerCheck(FALSE, {})

\* the retransmission timer expires and every retransmitted datagram arrives
TimerExpires == Quiet /\ TimerCheck(TRUE, 1..Len(Unacked(buffer)))

\* the steps of the responder; serial: a datagram is taken only when the
\* handler of the one before has ended
ServerStep(serial) ==
    \/ (serial => \A t \in 1..MaxThreads : threads[t].pc = "idle") /\ ServerRecv(1)
    \/ \E t \in 1..MaxThreads : ThreadStep(t)
    \/ \E t \in 1..MaxThreads : HandleSyn(t, 3, TRUE)
    \/ \E t \in 1..MaxThreads : AckReset(t, TRUE)
    \/ \E t \in 1..MaxThreads, drop \in BOOLEAN : DataRead(t, drop)
    \/ \E t \in 1..MaxThreads : DataAck(t, TRUE)
    \/ \E t \in 1..MaxThreads : HandleFin(t, TRUE)

InitSystem(targets, rates) ==
    /\ ClientInit(targets, {CHOOSE f \in RttScripts : f[1] = 10})
    /\ ServerInit(rates)
    /\ NetInit
    /\ CodecIdle

(***************************************************************************)
(* The end-to-end run: 5 packets, drop rate 0, no datagram lost.           *)
(***************************************************************************)
IdealTarget == 5         \* target_packets of the end-to-end run

InitIdeal == InitSystem({IdealTarget}, {0})

NextIdeal ==
    \/ ClientStep({min_packet_size}, {TRUE})
    \/ TimerExpires
    \/ ServerStep(FALSE)

SpecIdeal == InitIdeal /\ [][NextIdeal]_vars

\* C4: in the run with 5 packets, drop rate 0 and no loss, nothing is ever
\* retransmitted, at most 5 DATA packets are sent, and when the transfer loop
\* has ended exactly 5 were sent, base is 5 and the responder's expected_seq
\* for the initiator (while its record exists) is 5.
C4_CleanTransfer ==
    /\ retransmit_count = 0
    /\ sent_count <= IdealTarget
    /\ cpc = "done" =>
          /\ sent_count = IdealTarget
          /\ initial_sent = IdealTarget
          /\ base = IdealTarget
          /\ ClientAddr \in DOMAIN connections =>
                 connections[ClientAddr].expected_seq = IdealTarget

(***************************************************************************)
(* Liveness.  The handlers run one after the other, the responder drops    *)
(* nothing, and the network loses at most the handshake ACK.  Every step   *)
(* that stays possible is taken, and a running timer whose deadline is     *)
(* checked again and again expires: time passes with every receive poll.   *)
(***************************************************************************)
TransferTarget == 2     \* target_packets of the liveness runs

InitAckLoss == InitSystem({TransferTarget}, {0})

NextAckLoss ==
    \/ ClientStep({min_packet_size}, BOOLEAN)
    \/ TimerExpires
    \/ ServerStep(TRUE)

FairAckLoss ==
    /\ WF_vars(ClientStep({min_packet_size}, BOOLEAN))
    /\ WF_vars(ServerStep(TRUE))
    /\ SF_vars(TimerExpires)

SpecAckLoss == InitAckLoss /\ [][NextAckLoss]_vars /\ FairAckLoss

\* C7: once connect() has returned True the transfer loop ends: base reaches
\* target_packets and the FIN has been sent.
C7_TransferTerminates ==
    [](cpc = "loop" => <>(cpc = "done" /\ base = target_packets))

(***************************************************************************)
(* Liveness under simulated loss: the handlers run concurrently, the       *)
(* responder's loss policy may discard any DATA packet, the network loses  *)
(* nothing.                                                                *)
(***************************************************************************)
InitLossy == InitSystem({TransferTarget}, ServerRates)

NextLossy ==
    \/ ClientStep({min_packet_size}, {TRUE})
    \/ TimerExpires
    \/ ServerStep(FALSE)

FairLossy ==
    /\ WF_vars(ClientStep({min_packet_size}, {TRUE}))
    /\ WF_vars(ServerStep(FALSE))
    /\ SF_vars(TimerExpires)

SpecLossy == InitLossy /\ [][NextLossy]_vars /\ FairLossy

\* packet k was discarded by the loss policy and waits unacknowledged, and
\* nothing has been retransmitted yet
DroppedUnacked(k) ==
    /\ <<ClientAddr, k>> \in policy_dropped
    /\ k \in DOMAIN buffer
    /\ ~buffer[k].acked
    /\ buffer[k].retries = 0
    /\ retransmit_count = 0

\* handle_timeout() has just put packet k on the wire again
Retransmitted(k) ==
    /\ k \in DOMAIN buffer
    /\ buffer[k].retries >= 1
    /\ retransmit_count >= 1
    /\ \E i \in DOMAIN c2s : c2s[i] = FromClient(buffer[k].packet)

\* C6: when a DATA packet that the responder's loss policy discarded waits
\* unacknowledged and nothing has been retransmitted yet, a timeout follows:
\* the retransmit counter becomes at least 1, and every packet that the
\* policy discarded and that is still unacknowledged has been sent again by
\* handle_timeout() (same sequence number, retry count at least 1).
C6_LossRetransmit ==
    (\E k \in 0..(TransferTarget - 1) : DroppedUnacked(k))
        ~> ( /\ retransmit_count >= 1
             /\ \A k \in DOMAIN buffer :
                   (<<ClientAddr, k>> \in policy_dropped /\ ~buffer[k].acked)
                       => Retransmitted(k) )

\* the second packet was discarded once, and its one retransmission is on
\* the wire
C6_Witness ==
    /\ <<ClientAddr, 1>> \in policy_dropped
    /\ stats.c2s_dropped = 1
    /\ Retransmitted(1)
    /\ buffer[1].retries = 1

\* C11: whatever replies arrive during connect(), at most max_retries SYNs
\* are sent in total, and a reply that fails the check (not a SYN_ACK, or a
\* wrong ack) is followed by no further SYN unless a deadline has expired.
C11_SynBudget ==
    /\ [](Len(syn_waits) <= max_retries)
    /\ [][cpc = "syn_wait" /\ cpc' = "syn_send" => retries' = retries + 1]_vars


(***************************************************************************)
(* The responder fed datagrams shorter than a header, among SYNs of two    *)
(* peers.                                                                  *)
(***************************************************************************)
ShortInputs ==
    { FromClient(Dgram(<<>>, 0)),
      FromClient(Dgram(<<1, 0, 7, 0, 0, 0, 0>>, 0)),
      FromOther(Dgram(<<4, 0, 0>>, 0)),
      FromClient(Dgram(build_header(SYN, 7, 0, window_size_bytes, 0), 0)),
      FromOther(Dgram(build_header(SYN, 7, 0, window_size_bytes, 0), 0)) }

InitShort == InitServer

NextShort ==
    \/ \E m \in ShortInputs : EnvSend(m)
    \/ \E i \in DOMAIN c2s : ServerRecv(i)
    \/ \E t \in 1..MaxThreads : HandlerStart(t)
    \/ \E t \in 1..MaxThreads : HandlerCreate(t)
    \/ \E t \in 1..MaxThreads : HandleSyn(t, 3, TRUE)
    \/ \E t \in 1..MaxThreads : SynSet(t)

SpecShort == InitShort /\ [][NextShort]_vars

\* the handler thread t holds a datagram shorter than 8 bytes, not yet parsed
HoldsShort(t) ==
    threads[t].pc = "start" /\ DgramLen(threads[t].data) < 8

\* C12: the handler of a datagram shorter than 8 bytes ends at once: it
\* creates, changes and deletes no record, changes no counter and sends no
\* reply; and the receiving loop stays ready for the datagram that follows
\* whenever a thread is free, whatever handlers have ended that way.
C12_ShortDiscarded ==
    /\ [][\A t \in 1..MaxThreads :
            HoldsShort(t) /\ Steps(t)
            => /\ threads'[t] = IdleThread
               /\ connections' = connections
               /\ stats' = stats
               /\ policy_dropped' = policy_dropped
               /\ s2c' = s2c]_vars
    /\ [](c2s # <<>> /\ (\E t \in 1..MaxThreads : threads[t].pc = "idle")
          => ENABLED ServerRecv(1))

\* three datagrams were fed; the short one was discarded, and the SYNs of
\* both peers, handled after it, were answered and recorded
C12_Witness ==
    /\ injected = 3 /\ c2s = <<>>
    /\ \A t \in 1..MaxThreads : threads[t].pc = "idle"
    /\ printed = "syn"
    /\ stats.s2c_sent = 2
    /\ Len(s2c) = 2 /\ {s2c[1].addr, s2c[2].addr} = {ClientAddr, OtherAddr}
    /\ DOMAIN connections = {ClientAddr, OtherAddr}
    /\ \A a \in DOMAIN connections : connections[a].state = "SYN_RECEIVED"

\* the initiator takes a datagram shorter than 8 bytes off its socket
TakesShort ==
    /\ cpc \in {"syn_wait", "recv"}
    /\ \E i \in DOMAIN s2c : /\ DgramLen(s2c[i].data) < 8
                             /\ s2c' = RemoveAt(s2c, i)

\* C13: no error other than the handshake failure leaves the initiator, and a
\* datagram shorter than 8 bytes, taken while connect() waits for the SYN_ACK
\* or by receive_ack(), changes none of base, next_seq, current_window_usage
\* and buffer.
C13_ShortAbsorbed ==
    /\ [](cpc # "crashed")
    /\ [][TakesShort => /\ cpc' # "crashed"
                        /\ UNCHANGED <<base, next_seq, current_window_usage, buffer>>]_vars

\* the part of C13 about receive_ack() alone
C13_LoopAbsorbs ==
    [][TakesShort /\ cpc = "recv"
       => /\ cpc' = "timer"
          /\ UNCHANGED <<base, next_seq, current_window_usage, buffer>>]_vars

\* C14: the responder's expected_seq for a peer is the number it puts in its
\* ACKs, and it counts the packets accepted in order: an ACK carries the
\* record's expected_seq, and expected_seq only ever rises by 1, from e to
\* e + 1, in the step of a handler that holds the DATA packet number e (one
\* that passed the loss policy).  By induction an ACK with ack = n then means
\* that 0..n-1 were all accepted, whatever the interleaving of the handlers.
C14_AckSoundness ==
    /\ [][\A a \in DOMAIN connections \cap DOMAIN connections' :
            connections'[a].expected_seq > connections[a].expected_seq
            => /\ connections'[a].expected_seq = connections[a].expected_seq + 1
               /\ \E t \in 1..MaxThreads :
                     /\ threads[t].pc = "data_cmp" /\ Steps(t)
                     /\ threads[t].addr = a
                     /\ threads[t].seq = connections[a].expected_seq]_vars
    /\ [][\A t \in 1..MaxThreads :
            threads[t].pc = "data_ack" /\ Steps(t) /\ Len(s2c') > Len(s2c)
            => LET h == parse_header(s2c'[Len(s2c')].data.hdr)
               IN  /\ h[1] = ACK
                   /\ threads[t].addr \in DOMAIN connections
                   /\ h[3] = connections[threads[t].addr].expected_seq]_vars

\* a DATA handler compares with the value the record holds at that moment:
\* the copy it read earlier (line 89) has not been overtaken by another handler
C15_NoStaleRead ==
    [][\A t \in 1..MaxThreads :
          ( /\ threads[t].pc = "data_cmp" /\ Steps(t)
            /\ threads[t].addr \in DOMAIN connections )
          => threads[t].expected_seq = connections[threads[t].addr].expected_seq]_vars

\* a DATA handler past the state check always finds its peer's record
C15_NoDeletedRecord ==
    [][\A t \in 1..MaxThreads :
          threads[t].pc \in {"data_read", "data_cmp", "data_ack"} /\ Steps(t)
          => threads[t].addr \in DOMAIN connections]_vars

\* C15: handlers of one peer's datagrams that run concurrently behave as if
\* run one at a time: no DATA handler acts on a stale expected_seq (so two
\* handlers of the same sequence number raise it by at most 1 in total), and
\* none reads or writes a record a FIN handler has deleted.
C15_Serializable == C15_NoStaleRead /\ C15_NoDeletedRecord

(***************************************************************************)
(* The handshake on its own, for every pair of initial sequence numbers    *)
(* drawn, with no datagram lost and deadlines that expire only when        *)
(* nothing is on the way.                                                  *)
(***************************************************************************)
HandshakeSeqs == {0, 255, 256, 65534, 65535}  \* values of random.randint(0, 65535)

InitHandshake == InitSystem({ConnectTarget}, {0})

NextHandshake ==
    \/ \E r \in HandshakeSeqs : ConnectBegin(r)
    \/ SynSend(TRUE)
    \/ SynRecv(1, TRUE)
    \/ Quiet /\ SynTimeout
    \/ ServerRecv(1)
    \/ \E t \in 1..MaxThreads : HandlerStart(t)
    \/ \E t \in 1..MaxThreads : HandlerCreate(t)
    \/ \E t \in 1..MaxThreads, r \in HandshakeSeqs : HandleSyn(t, r, TRUE)
    \/ \E t \in 1..MaxThreads : SynSet(t)
    \/ \E t \in 1..MaxThreads : HandleAck(t)
    \/ \E t \in 1..MaxThreads : AckEstablish(t)
    \/ \E t \in 1..MaxThreads : AckReset(t, TRUE)

SpecHandshake == InitHandshake /\ [][NextHandshake]_vars

\* C16: with no datagram lost, whatever the two initial sequence numbers,
\* connect() neither gives up nor raises and no handler thread dies; a
\* SYN_ACK carries ack = my_seq + 1 as a 16-bit value; once connect() has
\* returned True base and next_seq are 0, and when its ACK has been handled
\* the responder holds the peer ESTABLISHED with expected_seq 0.
C16_HandshakeCompletes ==
    /\ cpc \notin {"failed", "crashed"}
    /\ printed # "traceback"
    /\ \A i \in DOMAIN s2c :
          LET h == parse_header(s2c[i].data.hdr)
          IN  h[1] = SYN_ACK => h[3] = (my_seq + 1) % 65536
    /\ cpc = "loop" => base = 0 /\ next_seq = 0
    /\ ( /\ cpc = "loop" /\ c2s = <<>>
         /\ \A t \in 1..MaxThreads : threads[t].pc = "idle" )
       => /\ ClientAddr \in DOMAIN connections
          /\ connections[ClientAddr].state = "ESTABLISHED"
          /\ connections[ClientAddr].expected_seq = 0

\* C17: a peer record comes into being only in the handling of a SYN from
\* its address (a DATA, ACK or FIN from an address without a record creates
\* none, also after a FIN has removed it); the handler of a FIN from an
\* address that has a record sends a FIN acknowledgment with
\* ack = seq + 1, and its last step leaves no record for the address.
C17_RecordLifetime ==
    /\ [][\A a \in DOMAIN connections' \ DOMAIN connections :
            \E t \in 1..MaxThreads :
               Steps(t) /\ threads[t].addr = a /\ threads[t].ptype = SYN]_vars
    /\ [][\A t \in 1..MaxThreads :
            ( /\ threads[t].pc = "dispatch" /\ threads[t].ptype = FIN /\ Steps(t)
              /\ threads[t].addr \in DOMAIN connections )
            => /\ Len(s2c') = Len(s2c) + 1
               /\ s2c'[Len(s2c')].addr = threads[t].addr
               /\ LET h == parse_header(s2c'[Len(s2c')].data.hdr)
                  IN  h[1] = FIN /\ h[3] = threads[t].seq + 1
               /\ threads'[t].pc = "fin_del"]_vars
    /\ [][\A t \in 1..MaxThreads :
            threads[t].pc = "fin_del" /\ Steps(t)
            => threads[t].addr \notin DOMAIN connections']_vars

\* C18: current_window_usage is never negative and is 0 whenever no packet
\* is outstanding (base = next_seq and the buffer is empty): an acknowledged
\* packet gives back exactly the bytes its sending added.
C18_Accounting ==
    /\ current_window_usage >= 0
    /\ (base = next_seq /\ DOMAIN buffer = {}) => current_window_usage = 0

\* C19: in every state of the sender base <= next_seq <= target_packets and
\* the buffer holds exactly the sequence numbers base..next_seq-1, none of
\* them marked acknowledged; and processing an ACK with ack > 0 removes
\* exactly the buffered packets below ack, base ending at the lowest one left
\* (at next_seq when none is left).
C19_BufferShape ==
    /\ [](/\ base <= next_seq
          /\ next_seq <= target_packets
          /\ DOMAIN buffer = base..(next_seq - 1)
          /\ \A s \in DOMAIN buffer : ~buffer[s].acked)
    /\ [][cpc = "recv" /\ last_ack' > 0
          => /\ DOMAIN buffer' = {s \in DOMAIN buffer : s >= last_ack'}
             /\ \A s \in DOMAIN buffer' : buffer'[s] = buffer[s]
             /\ base' = Max(base, Min(last_ack', next_seq))
             /\ next_seq' = next_seq]_vars

\* an ACK with ack = 3 has just been processed: the packets below 3 are gone
\* at once, those from 3 on are still pending
C19_Witness ==
    /\ cpc = "timer" /\ last_ack = 3 /\ base = 3
    /\ Len(rtt_list) = 3
    /\ next_seq >= 5
    /\ DOMAIN buffer = 3..(next_seq - 1)

\* C20: a step in which handle_timeout() runs sends every buffered packet
\* that is not acknowledged exactly once, and nothing else; raises the retry
\* count of each of them by 1 and of no other; raises retransmit_count and
\* sent_count by the number of packets sent; leaves base, next_seq,
\* current_window_usage, initial_sent and the buffered sequence numbers (and
\* their packets and marks) unchanged; and leaves the timer running when the
\* buffer is not empty.
C20_TimeoutStep ==
    [][( /\ cpc = "timer" /\ cpc' = "loop"
         /\ <<c2s, buffer, sent_count, retransmit_count>>' #
                <<c2s, buffer, sent_count, retransmit_count>> )
       => LET un == {s \in DOMAIN buffer : ~buffer[s].acked}
              n == Cardinality(un)
              new == Len(c2s) + 1 .. Len(c2s')
          IN  /\ Len(c2s') = Len(c2s) + n
              /\ SubSeq(c2s', 1, Len(c2s)) = c2s
              /\ \A s \in un :
                    Cardinality({k \in new : c2s'[k] = FromClient(buffer[s].packet)}) = 1
              /\ DOMAIN buffer' = DOMAIN buffer
              /\ \A s \in DOMAIN buffer :
                    buffer'[s] = IF s \in un
                                 THEN [buffer[s] EXCEPT !.retries = @ + 1]
                                 ELSE buffer[s]
              /\ retransmit_count' = retransmit_count + n
              /\ sent_count' = sent_count + n
              /\ UNCHANGED <<base, next_seq, current_window_usage, initial_sent>>
              /\ DOMAIN buffer # {} => timer_running']_vars

\* the timer has just expired with packets 0 and 1 pending: both were sent
\* again, once each
C20_Witness ==
    /\ cpc = "loop" /\ base = 0 /\ next_seq = 2
    /\ retransmit_count = 2 /\ sent_count = 4 /\ initial_sent = 2
    /\ Len(c2s) = 2
    /\ \A s \in DOMAIN buffer : buffer[s].retries = 1
    /\ timer_running

=============================================================================
